---- MODULE Spec2Model ----
(***************************************************************************)
(* Model of spectrum.py: an interactive run of main (prompt, read_audio,   *)
(* process_audio, prompt, write_audio) and process_audio as a function of  *)
(* an arbitrary buffer, sample rate and options mapping.                   *)
(*                                                                         *)
(* Strings are sequences of one-character strings.  Samples are exact      *)
(* rationals num[i]/den; a Python float that the claims compare exactly    *)
(* (the pre-emphasis coefficient) carries, next to its real value, its     *)
(* binary64 encoding, computed with round-to-nearest-even.                 *)
(***************************************************************************)
EXTENDS Integers, Sequences, FiniteSets, TLC

\* ------------------------------------------------------------------ bounds
MaxRejects == 2     \* "Please enter a value." messages in one run
MaxLen == 2         \* samples in a decoded buffer
MaxRate == 4        \* the sample rates 1..MaxRate, next to the common ones

\* --------------------------------------------------------------- constants
IntMax == 32767     \* np.iinfo(samples.dtype).max for 16-bit samples
IntMin == -32768    \* most negative 16-bit sample
FrameRate == 22050  \* audio.set_frame_rate(22050)
Mantissa == 53      \* significant bits of a binary64 float

\* ------------------------------------------------------------------ strings
Whitespace == {" ", "\t"}

RECURSIVE LStrip(_)
LStrip(s) == IF s # <<>> /\ Head(s) \in Whitespace THEN LStrip(Tail(s)) ELSE s

RECURSIVE RStrip(_)
RStrip(s) ==
  IF s # <<>> /\ s[Len(s)] \in Whitespace THEN RStrip(SubSeq(s, 1, Len(s) - 1)) ELSE s

\* str.strip()
Strip(s) == RStrip(LStrip(s))

LowerChar(c) ==
  CASE c = "A" -> "a"
    [] c = "B" -> "b"
    [] c = "M" -> "m"
    [] c = "W" -> "w"
    [] c = "V" -> "v"
    [] OTHER -> c

\* str.lower()
Lower(s) == [i \in 1..Len(s) |-> LowerChar(s[i])]

\* str.endswith(suffix)
EndsWith(s, suffix) ==
  /\ Len(s) >= Len(suffix)
  /\ SubSeq(s, Len(s) - Len(suffix) + 1, Len(s)) = suffix

Home == <<"/", "h">>    \* the user's home directory
Cwd == <<"/", "w">>     \* the working directory

\* os.path.expanduser, for "~" and "~/..." (no "~user" among the inputs)
ExpandUser(p) ==
  IF p # <<>> /\ p[1] = "~" /\ (Len(p) = 1 \/ p[2] = "/") THEN Home \o Tail(p) ELSE p

\* os.path.abspath, for paths without "." and ".." components
AbsPath(p) ==
  IF p # <<>> /\ p[1] = "/" THEN p
  ELSE IF p = <<>> THEN Cwd
  ELSE Cwd \o <<"/">> \o p

M4aSuffix == <<".", "m", "4", "a">>

\* what the user may type at a prompt
TypedInputs ==
  { <<>>,
    <<" ">>,
    <<" ", "\t">>,
    <<"a", ".", "m", "4", "a">>,
    <<" ", "A", ".", "M", "4", "A", " ">>,
    <<"b", ".", "w", "a", "v">>,
    <<"~", "/", "b", ".", "w", "a", "v">>,
    <<"/", "b", ".", "w", "a", "v", " ">> }

\* ------------------------------------------------------------ real numbers
Abs(x) == IF x < 0 THEN -x ELSE x

RECURSIVE GCD(_, _)
GCD(a, b) == IF b = 0 THEN a ELSE GCD(b, a % b)

\* the rational p/q in lowest terms, q > 0
Rat(p, q) ==
  LET g == GCD(Abs(p), Abs(q))
      s == IF q < 0 THEN -1 ELSE 1
  IN  [p |-> s * (p \div g), q |-> s * (q \div g)]

\* --------------------------------------------------------- binary64 floats
\* A float is its real value val (a rational in lowest terms) next to the
\* binary64 number the interpreter holds: bits.m is the 53-bit significand,
\* most significant bit first (<<>> for zero), and the number is m * 2^e.
Zeros(n) == [i \in 1..n |-> 0]

\* b without its leading zeros
StripZeros(b) ==
  IF \A i \in 1..Len(b) : b[i] = 0 THEN <<>>
  ELSE LET first == CHOOSE i \in 1..Len(b) : b[i] = 1 /\ \A j \in 1..(i - 1) : b[j] = 0
       IN  SubSeq(b, first, Len(b))

RECURSIVE BitsOf(_)
\* the binary digits of a natural number, most significant first
BitsOf(n) == IF n = 0 THEN <<>> ELSE BitsOf(n \div 2) \o <<n % 2>>

RECURSIVE MulRange(_, _, _, _, _)
\* digits lo..hi of b times n, plus the carry coming in from the digits
\* below hi: the product's digits there (d) and the carry going out (c).
\* (carry is never negative: testing it first makes TLC evaluate the carry
\* before it descends, which keeps its evaluation stack shallow.)
MulRange(b, lo, hi, n, carry) ==
  IF carry < 0 \/ lo > hi THEN [d |-> <<>>, c |-> carry]
  ELSE IF lo = hi
  THEN LET t == b[lo] * n + carry IN [d |-> <<t % 2>>, c |-> t \div 2]
  ELSE LET mid == (lo + hi) \div 2
           low == MulRange(b, mid + 1, hi, n, carry)
           high == MulRange(b, lo, mid, n, low.c)
       IN  [d |-> high.d \o low.d, c |-> high.c]

\* the digits of b * n
MulSmall(b, n) ==
  LET r == MulRange(b, 1, Len(b), n, 0) IN BitsOf(r.c) \o r.d

RECURSIVE DivRange(_, _, _, _, _)
\* long division of digits lo..hi of b by n, r the remainder carried in:
\* the quotient's digits there (q) and the remainder going out (r).
\* (r is never negative; the test is there for the same reason.)
DivRange(b, lo, hi, n, r) ==
  IF r < 0 \/ lo > hi THEN [q |-> <<>>, r |-> r]
  ELSE IF lo = hi
  THEN LET t == 2 * r + b[lo]
           d == IF t >= n THEN 1 ELSE 0
       IN  [q |-> <<d>>, r |-> t - d * n]
  ELSE LET mid == (lo + hi) \div 2
           high == DivRange(b, lo, mid, n, r)
           low == DivRange(b, mid + 1, hi, n, high.r)
       IN  [q |-> high.q \o low.q, r |-> low.r]

\* quotient digits and remainder of b divided by n
DivSmall(b, n) == DivRange(b, 1, Len(b), n, 0)

\* b + 1 on digits; one digit longer when b is all ones
Increment(b) ==
  IF \A i \in 1..Len(b) : b[i] = 1 THEN <<1>> \o Zeros(Len(b))
  ELSE LET last == CHOOSE i \in 1..Len(b) : b[i] = 0 /\ \A j \in (i + 1)..Len(b) : b[j] = 1
       IN  SubSeq(b, 1, last - 1) \o <<1>> \o Zeros(Len(b) - last)

\* round the number b * 2^e (plus a nonzero tail below b when sticky) to 53
\* significant bits, ties to even
RoundNearestEven(b, sticky, e) ==
  IF b = <<>> THEN [m |-> <<>>, e |-> 0]
  ELSE IF Len(b) <= Mantissa
  THEN [m |-> b \o Zeros(Mantissa - Len(b)), e |-> e - (Mantissa - Len(b))]
  ELSE LET top == SubSeq(b, 1, Mantissa)
           guard == b[Mantissa + 1]
           tail == sticky \/ \E i \in (Mantissa + 2)..Len(b) : b[i] = 1
           up == guard = 1 /\ (tail \/ top[Mantissa] = 1)
           inc == Increment(top)
           shift == Len(b) - Mantissa
       IN  IF ~up THEN [m |-> top, e |-> e + shift]
           ELSE IF Len(inc) > Mantissa
           THEN [m |-> SubSeq(inc, 1, Mantissa), e |-> e + shift + 1]
           ELSE [m |-> inc, e |-> e + shift]

\* the float of a small integer (exact)
FloatOfInt(n) ==
  [val |-> Rat(n, 1), bits |-> RoundNearestEven(BitsOf(n), FALSE, 0)]

\* the literal 0.1: 0x1.999999999999ap-4, the double nearest to 1/10
Tenth ==
  [val |-> Rat(1, 10),
   bits |-> [m |-> <<1>> \o [i \in 1..48 |-> IF i % 4 \in {1, 0} THEN 1 ELSE 0]
                    \o <<1, 0, 1, 0>>,
             e |-> -56]]

\* the literal 0.5
Half == [val |-> Rat(1, 2), bits |-> [m |-> <<1>> \o Zeros(52), e |-> -53]]

\* float * int, for a float x >= 0 and an int n > 0
FloatMul(x, n) ==
  [val |-> Rat(x.val.p * n, x.val.q),
   bits |-> IF x.bits.m = <<>> THEN x.bits
            ELSE RoundNearestEven(MulSmall(x.bits.m, n), FALSE, x.bits.e)]

\* number / int (true division), for a number x >= 0 and an int n > 0
FloatDiv(x, n) ==
  [val |-> Rat(x.val.p, x.val.q * n),
   bits |-> IF x.bits.m = <<>> THEN x.bits
            ELSE LET k == Len(BitsOf(n)) + 2
                     d == DivSmall(x.bits.m \o Zeros(k), n)
                 IN  RoundNearestEven(StripZeros(d.q), d.r # 0, x.bits.e - k)]

\* ------------------------------------------------------------------ values
None == [t |-> "none"]
Unset == [t |-> "unset"]                 \* a local not assigned yet
Bool(b) == [t |-> "bool", b |-> b]
Num(x) == [t |-> "num", n |-> x]
Str(s) == [t |-> "str", s |-> s]

\* Python truth value of an option value
Truthy(v) ==
  CASE v.t = "bool" -> v.b
    [] v.t = "num" -> v.n.val.p # 0
    [] OTHER -> FALSE

\* dict.get(key, default)
Get(options, key, default) ==
  IF key \in DOMAIN options THEN options[key] ELSE default

\* ----------------------------------------------------------------- buffers
\* A buffer is the samples num[i] / den, den > 0.
Buffer(num, den) == [num |-> num, den |-> den]

\* the largest |num[i]| (0 for the empty buffer)
Peak(buf) ==
  IF buf.num = <<>> THEN 0
  ELSE CHOOSE m \in {Abs(buf.num[i]) : i \in 1..Len(buf.num)} :
         \A i \in 1..Len(buf.num) : Abs(buf.num[i]) <= m

Returned(data) == [raised |-> FALSE, data |-> data]
Raised == [raised |-> TRUE, data |-> Unset]

\* librosa.effects.preemphasis(y, coef=c): the filter y[n] - c * y[n-1]
\* run by lfilter from the initial state zi = 2*y[0] - y[1]; a buffer
\* shorter than two samples has no such state and the call raises.
Preemphasis(y, c) ==
  IF Len(y.num) < 2 THEN Raised
  ELSE LET zi == 2 * y.num[1] - y.num[2]
       IN  Returned(Buffer(
             [n \in 1..Len(y.num) |->
                IF n = 1 THEN c.q * (y.num[1] + zi)
                ELSE c.q * y.num[n] - c.p * y.num[n - 1]],
             y.den * c.q))

\* librosa.util.normalize(S): divide by the peak; a peak below the smallest
\* normal float (here: zero) leaves S as it is; an empty S raises.
Normalize(S) ==
  IF S.num = <<>> THEN Raised
  ELSE IF Peak(S) = 0 THEN Returned(S)
  ELSE Returned(Buffer(S.num, Peak(S)))

OptionKeys ==
  {"noise_reduction", "speech_emphasis", "rolloff_freq", "bass_boost",
   "treble_boost", "normalize", "compress"}

\* Coefficient with the default roll-off not scaled by the sample rate
CoefficientUnscaledDefault(sample_rate, options) ==
  LET rolloff_freq == Get(options, "rolloff_freq", Num(Tenth))
  IN  FloatDiv(rolloff_freq.n, sample_rate)

\* lines 61-62: the coefficient handed to preemphasis
Coefficient(sample_rate, options) ==
  LET rolloff_freq == Get(options, "rolloff_freq", Num(FloatMul(Tenth, sample_rate)))
  IN  FloatDiv(rolloff_freq.n, sample_rate)

\* process_audio normalizing before the pre-emphasis instead of after it
ProcessAudioNormalizeFirst(audio_data, sample_rate, options) ==
  LET emphasis == Truthy(Get(options, "speech_emphasis", None))
      coef == IF emphasis THEN Num(Coefficient(sample_rate, options)) ELSE Unset
      a1 == IF Truthy(Get(options, "normalize", None)) THEN Normalize(audio_data)
            ELSE Returned(audio_data)
      a2 == IF a1.raised THEN a1
            ELSE IF emphasis THEN Preemphasis(a1.data, coef.n.val)
            ELSE a1
  IN  [raised |-> a2.raised, data |-> a2.data, coef |-> coef]

\* process_audio with a bass boost that doubles every sample
ProcessAudioBassBoost(audio_data, sample_rate, options) ==
  LET emphasis == Truthy(Get(options, "speech_emphasis", None))
      coef == IF emphasis THEN Num(Coefficient(sample_rate, options)) ELSE Unset
      a1 == IF emphasis THEN Preemphasis(audio_data, coef.n.val)
            ELSE Returned(audio_data)
      a2 == IF a1.raised \/ ~Truthy(Get(options, "bass_boost", None)) THEN a1
            ELSE Returned(Buffer([i \in 1..Len(a1.data.num) |-> 2 * a1.data.num[i]],
                                 a1.data.den))
      a3 == IF a2.raised THEN a2
            ELSE IF Truthy(Get(options, "normalize", None)) THEN Normalize(a2.data)
            ELSE a2
  IN  [raised |-> a3.raised, data |-> a3.data, coef |-> coef]

\* process_audio: [raised, data, coef]; coef is the coefficient it used
ProcessAudio(audio_data, sample_rate, options) ==
  LET emphasis == Truthy(Get(options, "speech_emphasis", None))
      coef == IF emphasis THEN Num(Coefficient(sample_rate, options)) ELSE Unset
      a1 == IF emphasis THEN Preemphasis(audio_data, coef.n.val)
            ELSE Returned(audio_data)
      a2 == IF a1.raised THEN a1
            ELSE IF Truthy(Get(options, "normalize", None)) THEN Normalize(a1.data)
            ELSE a1
  IN  [raised |-> a2.raised, data |-> a2.data, coef |-> coef]

\* ------------------------------------------------------------- read_audio
Exceptions == {"FileNotFoundError", "Exception"}

Say(msg, arg) == [msg |-> msg, arg |-> arg]

\* read_audio returning None on a failure without reporting it
ReadAudioSilent(filepath, decoded) ==
  LET path == AbsPath(ExpandUser(filepath))
      reading == <<Say("Reading audio file from", path)>>
  IN  IF decoded.kind = "raise"
      THEN [ret |-> None, escaped |-> FALSE, printed |-> reading]
      ELSE IF EndsWith(Lower(path), M4aSuffix)
      THEN [ret |-> [t |-> "pair", samples |-> Buffer(decoded.ints, IntMax),
                     rate |-> FrameRate],
            escaped |-> FALSE, printed |-> reading]
      ELSE [ret |-> [t |-> "pair", samples |-> decoded.samples, rate |-> decoded.rate],
            escaped |-> FALSE, printed |-> reading]

\* read_audio handling FileNotFoundError only
ReadAudioNoCatchAll(filepath, decoded) ==
  LET path == AbsPath(ExpandUser(filepath))
      reading == <<Say("Reading audio file from", path)>>
  IN  IF decoded.kind = "raise"
      THEN IF decoded.exc = "FileNotFoundError"
           THEN [ret |-> None, escaped |-> FALSE,
                 printed |-> reading \o <<Say("Error: Audio file not found at", path)>>]
           ELSE [ret |-> Unset, escaped |-> TRUE, printed |-> reading]
      ELSE IF EndsWith(Lower(path), M4aSuffix)
      THEN [ret |-> [t |-> "pair", samples |-> Buffer(decoded.ints, IntMax),
                     rate |-> FrameRate],
            escaped |-> FALSE, printed |-> reading]
      ELSE [ret |-> [t |-> "pair", samples |-> decoded.samples, rate |-> decoded.rate],
            escaped |-> FALSE, printed |-> reading]

\* read_audio(filepath) when the decoder it calls ends as `decoded`:
\* ret is what it returns, printed what it prints, escaped whether an
\* exception leaves it.
ReadAudio(filepath, decoded) ==
  LET path == AbsPath(ExpandUser(filepath))
      reading == <<Say("Reading audio file from", path)>>
  IN  IF decoded.kind = "raise"
      THEN IF decoded.exc = "FileNotFoundError"
           THEN [ret |-> None, escaped |-> FALSE,
                 printed |-> reading \o <<Say("Error: Audio file not found at", path)>>]
           ELSE IF decoded.exc \in Exceptions
           THEN [ret |-> None, escaped |-> FALSE,
                 printed |-> reading \o <<Say("Error:", <<>>)>>]
           ELSE [ret |-> Unset, escaped |-> TRUE, printed |-> reading]
      ELSE IF EndsWith(Lower(path), M4aSuffix)
      THEN [ret |-> [t |-> "pair", samples |-> Buffer(decoded.ints, IntMax),
                     rate |-> FrameRate],
            escaped |-> FALSE, printed |-> reading]
      ELSE [ret |-> [t |-> "pair", samples |-> decoded.samples, rate |-> decoded.rate],
            escaped |-> FALSE, printed |-> reading]

\* ------------------------------------------------------------------- state
VARIABLES
  pc,               \* where main is
  out,              \* the console: prompts shown and messages printed, in order
  audio_filepath,   \* main's locals
  decoded,          \* how the decoder called by read_audio ended
  read_result,      \* what read_audio returned
  audio_data,
  sample_rate,
  options,
  processed_audio,
  coef,             \* the coefficient process_audio handed to preemphasis
  output_filepath,
  writes,           \* the calls of write_audio, in order
  files,            \* the output files created
  fault             \* the uncaught exception that ended the run, if any

vars ==
  <<pc, out, audio_filepath, decoded, read_result, audio_data, sample_rate, options,
    processed_audio, coef, output_filepath, writes, files, fault>>

\* ------------------------------------------------------------------ inputs
SeqsUpTo(S, n) == UNION {[1..k -> S] : k \in 0..n}

CommonRates == {22050, 44100}
SampleRates == (1..MaxRate) \cup CommonRates

\* 16-bit samples a decoded .m4a may hold
IntSamples == {IntMin, -1, 0, IntMax}

\* float buffers soundfile may return: samples -1, 0 and 0.5
FloatBuffers == {Buffer(num, 2) : num \in SeqsUpTo({-2, 0, 1}, MaxLen)}

Raises == {[kind |-> "raise", exc |-> e] : e \in Exceptions}

\* how AudioSegment.from_file and the calls after it may end
PydubOutcomes ==
  Raises \cup {[kind |-> "ok", ints |-> s] : s \in SeqsUpTo(IntSamples, MaxLen)}

\* how sf.read may end
SfOutcomes ==
  Raises \cup {[kind |-> "ok", samples |-> b, rate |-> r] :
                 b \in FloatBuffers, r \in SampleRates}

\* the decoder outcomes possible for a typed path: a directory (the working
\* directory, for the empty path) never decodes
DecodeOutcomes(filepath) ==
  LET path == AbsPath(ExpandUser(filepath))
  IN  IF path = Cwd THEN Raises
      ELSE IF EndsWith(Lower(path), M4aSuffix) THEN PydubOutcomes
      ELSE SfOutcomes

Count(seq, msg) == Cardinality({i \in 1..Len(seq) : seq[i].msg = msg})

Printed(msg) == \E i \in 1..Len(out) : out[i].msg = msg

InputPrompt == "Enter the path to your audio file: "
OutputPrompt == "Enter the path to save the processed audio file: "

\* -------------------------------------------------------------------- main
Init ==
  /\ pc = "input_path"
  /\ out = <<>>
  /\ audio_filepath = Unset
  /\ decoded = Unset
  /\ read_result = Unset
  /\ audio_data = Unset
  /\ sample_rate = Unset
  /\ options = Unset
  /\ processed_audio = Unset
  /\ coef = Unset
  /\ output_filepath = Unset
  /\ writes = <<>>
  /\ files = {}
  /\ fault = "none"

\* one round of get_user_input's loop (lines 102-106) on the text typed:
\* the value returned, or a rejection
GetUserInput(typed) ==
  IF typed # <<>>
  THEN [returned |-> TRUE, value |-> Strip(typed), printed |-> <<>>]
  ELSE [returned |-> FALSE, value |-> Unset,
        printed |-> <<Say("Please enter a value.", <<>>)>>]

\* line 110 and line 132: the user answers the prompt shown
Prompt ==
  /\ pc \in {"input_path", "output_path"}
  /\ \E typed \in TypedInputs :
       LET r == GetUserInput(typed)
           shown == Say(IF pc = "input_path" THEN InputPrompt ELSE OutputPrompt, <<>>)
       IN  /\ r.returned \/ Count(out, "Please enter a value.") < MaxRejects
           /\ out' = out \o <<shown>> \o r.printed
           /\ IF ~r.returned
              THEN UNCHANGED <<pc, audio_filepath, output_filepath>>
              ELSE IF pc = "input_path"
              THEN /\ audio_filepath' = Str(r.value)
                   /\ pc' = "read"
                   /\ UNCHANGED output_filepath
              ELSE /\ output_filepath' = Str(r.value)
                   /\ pc' = "write"
                   /\ UNCHANGED audio_filepath
  /\ UNCHANGED <<decoded, read_result, audio_data, sample_rate, options,
                 processed_audio, coef, writes, files, fault>>

\* input() at end of input: EOFError, which nothing catches
PromptEOF ==
  /\ pc \in {"input_path", "output_path"}
  /\ out' = out \o <<Say(IF pc = "input_path" THEN InputPrompt ELSE OutputPrompt, <<>>)>>
  /\ pc' = "crashed"
  /\ fault' = "EOFError"
  /\ UNCHANGED <<audio_filepath, decoded, read_result, audio_data, sample_rate,
                 options, processed_audio, coef, output_filepath, writes, files>>

\* line 113, the call: read_audio(audio_filepath)
CallReadAudio ==
  /\ pc = "read"
  /\ \E d \in DecodeOutcomes(audio_filepath.s) :
       LET r == ReadAudio(audio_filepath.s, d)
       IN  /\ decoded' = d
           /\ out' = out \o r.printed
           /\ read_result' = r.ret
           /\ IF r.escaped
              THEN pc' = "crashed" /\ fault' = d.exc
              ELSE pc' = "unpack" /\ UNCHANGED fault
  /\ UNCHANGED <<audio_filepath, audio_data, sample_rate, options, processed_audio,
                 coef, output_filepath, writes, files>>

\* lines 113-115: unpack the result into audio_data, sample_rate, then
\* return if audio_data is None.  Unpacking None raises TypeError.
Unpack ==
  /\ pc = "unpack"
  /\ IF read_result = None
     THEN /\ pc' = "crashed"
          /\ fault' = "TypeError"
          /\ UNCHANGED <<audio_data, sample_rate>>
     ELSE /\ audio_data' = read_result.samples
          /\ sample_rate' = read_result.rate
          /\ pc' = IF read_result.samples = None THEN "done" ELSE "process"
          /\ UNCHANGED fault
  /\ UNCHANGED <<out, audio_filepath, decoded, read_result, options,
                 processed_audio, coef, output_filepath, writes, files>>

\* lines 118-126
MainOptions(rate) ==
  [k \in OptionKeys |->
     CASE k \in {"noise_reduction", "speech_emphasis", "normalize"} -> Bool(TRUE)
       [] k = "rolloff_freq" -> Num(FloatMul(Tenth, rate))
       [] k = "compress" -> Bool(FALSE)
       [] OTHER -> None]

\* lines 118-129: build the options and call process_audio
Process ==
  /\ pc = "process"
  /\ options' = MainOptions(sample_rate)
  /\ LET r == ProcessAudio(audio_data, sample_rate, options')
     IN  /\ coef' = r.coef
         /\ processed_audio' = r.data
         /\ IF r.raised
            THEN pc' = "crashed" /\ fault' = "LibraryError"
            ELSE pc' = "output_path" /\ UNCHANGED fault
  /\ UNCHANGED <<out, audio_filepath, decoded, read_result, audio_data,
                 sample_rate, output_filepath, writes, files>>

\* write_audio called with the .m4a frame rate whatever the input's rate
WriteCallFixedRate(data, rate, path) ==
  [data |-> data, rate |-> FrameRate, path |-> path]

\* the arguments main hands to write_audio (line 135)
WriteCall(data, rate, path) == [data |-> data, rate |-> rate, path |-> path]

\* the write step with a failure of sf.write swallowed
WriteCaught ==
  /\ pc = "write"
  /\ writes' = Append(writes, WriteCall(processed_audio, sample_rate, output_filepath.s))
  /\ \E ok \in (IF output_filepath.s = <<>> THEN {FALSE} ELSE BOOLEAN) :
       /\ files' = IF ok THEN files \cup {output_filepath.s} ELSE files
       /\ pc' = "written"
       /\ UNCHANGED fault
  /\ UNCHANGED <<out, audio_filepath, decoded, read_result, audio_data,
                 sample_rate, options, processed_audio, coef, output_filepath>>

\* line 135: write_audio, that is sf.write (line 89); the empty path names
\* no format and cannot be written
Write ==
  /\ pc = "write"
  /\ writes' = Append(writes, WriteCall(processed_audio, sample_rate, output_filepath.s))
  /\ \E ok \in (IF output_filepath.s = <<>> THEN {FALSE} ELSE BOOLEAN) :
       IF ok
       THEN /\ files' = files \cup {output_filepath.s}
            /\ pc' = "written"
            /\ UNCHANGED fault
       ELSE /\ pc' = "crashed"
            /\ fault' = "WriteError"
            /\ UNCHANGED files
  /\ UNCHANGED <<out, audio_filepath, decoded, read_result, audio_data,
                 sample_rate, options, processed_audio, coef, output_filepath>>

\* line 137
PrintComplete ==
  /\ pc = "written"
  /\ out' = Append(out, Say("Audio processing complete!", <<>>))
  /\ pc' = "done"
  /\ UNCHANGED <<audio_filepath, decoded, read_result, audio_data, sample_rate,
                 options, processed_audio, coef, output_filepath, writes, files, fault>>

Next ==
  \/ Prompt
  \/ PromptEOF
  \/ CallReadAudio
  \/ Unpack
  \/ Process
  \/ Write
  \/ PrintComplete

Spec == Init /\ [][Next]_vars

\* ----------------------------------------- process_audio on arbitrary input
Absent == [t |-> "absent"]              \* the key is not in the mapping

Flags == {Absent, Bool(FALSE), Bool(TRUE)}

NoopKeys == {"noise_reduction", "bass_boost", "treble_boost", "compress"}

NoopSets ==
  { {}, {"noise_reduction"}, {"treble_boost"}, {"bass_boost", "treble_boost"},
    {"compress"}, NoopKeys }

Rolloffs(rate) ==
  {Absent, Num(FloatOfInt(0)), Num(FloatMul(Half, rate))}

\* the mapping with the given choices, the absent keys left out
MakeOptions(emphasis, normalize, noops, rolloff) ==
  LET choice == [k \in OptionKeys |->
                   CASE k = "speech_emphasis" -> emphasis
                     [] k = "normalize" -> normalize
                     [] k = "rolloff_freq" -> rolloff
                     [] OTHER -> IF k \in noops THEN Bool(TRUE) ELSE Absent]
  IN  [k \in {k \in OptionKeys : choice[k] # Absent} |-> choice[k]]

OptionMaps(rate) ==
  {MakeOptions(e, n, noops, r) :
     e \in Flags, n \in Flags, noops \in NoopSets, r \in Rolloffs(rate)}

InitPA ==
  /\ pc = "call"
  /\ out = <<>>
  /\ audio_filepath = Unset
  /\ decoded = Unset
  /\ read_result = Unset
  /\ audio_data \in FloatBuffers
  /\ sample_rate \in SampleRates
  /\ options \in OptionMaps(sample_rate)
  /\ processed_audio = Unset
  /\ coef = Unset
  /\ output_filepath = Unset
  /\ writes = <<>>
  /\ files = {}
  /\ fault = "none"

\* process_audio(audio_data, sample_rate, options)
CallProcessAudio ==
  /\ pc = "call"
  /\ LET r == ProcessAudio(audio_data, sample_rate, options)
     IN  /\ coef' = r.coef
         /\ processed_audio' = r.data
         /\ pc' = IF r.raised THEN "raised" ELSE "returned"
  /\ UNCHANGED <<out, audio_filepath, decoded, read_result, audio_data, sample_rate,
                 options, output_filepath, writes, files, fault>>

NextPA == CallProcessAudio

SpecPA == InitPA /\ [][NextPA]_vars

\* ------------------------------------------------------------------ claims
NotFoundMsg == "Error: Audio file not found at"
GenericMsg == "Error:"
CompleteMsg == "Audio processing complete!"
RejectMsg == "Please enter a value."

Enabled(key) == Truthy(Get(options, key, None))

\* the resolved input path has the .m4a extension
IsM4aRun ==
  /\ audio_filepath # Unset
  /\ EndsWith(Lower(AbsPath(ExpandUser(audio_filepath.s))), M4aSuffix)

\* C1: once read_audio has failed (returned None), an error message has been
\* printed, and from then on write_audio is not called, no output file
\* exists, the output-path prompt is not shown and the completion message is
\* not printed.
C1_FailedReadWritesNothing ==
  read_result = None =>
    /\ Printed(NotFoundMsg) \/ Printed(GenericMsg)
    /\ writes = <<>>
    /\ files = {}
    /\ ~Printed(OutputPrompt)
    /\ ~Printed(CompleteMsg)

\* C1 witness: a run that ended after a failed read
C1_Witness == read_result = None /\ pc = "crashed" /\ decoded.exc = "FileNotFoundError"

\* C2 (as claimed): a value get_user_input has returned is never empty.
C2_ReturnedNeverEmpty ==
  /\ audio_filepath # Unset => audio_filepath.s # <<>>
  /\ output_filepath # Unset => output_filepath.s # <<>>

\* C3 (as claimed): with normalize enabled, the buffer process_audio returns
\* has maximum absolute sample 1.0, for every input buffer.
C3_PeakAlwaysOne ==
  (pc = "returned" /\ Enabled("normalize")) =>
    Peak(processed_audio) = processed_audio.den

\* the buffer that reaches the normalization step
PreNormalize ==
  IF Enabled("speech_emphasis") THEN Preemphasis(audio_data, coef.n.val).data
  ELSE audio_data

\* C3 (amended): with normalize enabled, the returned buffer is the
\* pre-emphasized buffer (the input, when speech_emphasis is off) divided by
\* its peak, so its maximum absolute sample is 1.0, unless that buffer is
\* silent, and then it is returned as it is.
C3_PeakOneUnlessSilent ==
  (pc = "returned" /\ Enabled("normalize")) =>
    IF Peak(PreNormalize) = 0
    THEN processed_audio = PreNormalize
    ELSE /\ Peak(processed_audio) = processed_audio.den
         /\ processed_audio = Buffer(PreNormalize.num, Peak(PreNormalize))

\* C3 witness: pre-emphasis and normalization both ran on a buffer whose
\* own peak was not 1.0, with compress set as well
C3_Witness ==
  /\ pc = "returned"
  /\ Enabled("normalize") /\ Enabled("speech_emphasis") /\ Enabled("compress")
  /\ Peak(audio_data) # audio_data.den
  /\ Peak(processed_audio) = processed_audio.den

\* C4: every call of write_audio gets the sample rate read_audio returned.
C4_RateUnchanged ==
  \A i \in 1..Len(writes) :
    read_result.t = "pair" /\ writes[i].rate = read_result.rate

\* C4 witness: a write at a rate other than the .m4a frame rate
C4_Witness == writes # <<>> /\ writes[1].rate = 3 /\ coef # Unset

\* C5 (as claimed): every sample read_audio returns for an .m4a input lies
\* in [-1, 1].
C5_M4aSamplesInRange ==
  (IsM4aRun /\ read_result # Unset /\ read_result.t = "pair") =>
    \A i \in 1..Len(read_result.samples.num) :
      /\ read_result.samples.num[i] <= read_result.samples.den
      /\ read_result.samples.num[i] >= -read_result.samples.den

\* the options with the four placeholder keys removed
WithoutNoops ==
  [k \in (DOMAIN options) \ NoopKeys |-> options[k]]

\* C6: what process_audio does (the buffer it returns, or that it raises) is
\* what it does when the keys noise_reduction, bass_boost, treble_boost and
\* compress are removed from the options; and with speech_emphasis and
\* normalize absent or false it returns the input buffer unchanged.
C6_NoopOptionsIgnored ==
  pc \in {"returned", "raised"} =>
    LET r == ProcessAudio(audio_data, sample_rate, WithoutNoops)
    IN  /\ r.raised = (pc = "raised")
        /\ r.data = processed_audio
        /\ (~Enabled("speech_emphasis") /\ ~Enabled("normalize")) =>
             (pc = "returned" /\ processed_audio = audio_data)

\* C6 witness: all four placeholder options set (bass_boost and treble_boost
\* together), and a result that differs from the input
C6_Witness ==
  /\ pc = "returned"
  /\ \A k \in NoopKeys : Enabled(k)
  /\ Enabled("speech_emphasis")
  /\ processed_audio # audio_data

RolloffAbsent == "rolloff_freq" \notin DOMAIN options

\* C7 (as claimed): with speech_emphasis enabled, an absent rolloff_freq
\* gives the coefficient 0.1, rolloff_freq = 0.5 * sample_rate gives 0.5 and
\* rolloff_freq = 0 gives 0, for every sample rate.
C7_CoefficientExact ==
  (pc \in {"returned", "raised"} /\ Enabled("speech_emphasis")) =>
    /\ RolloffAbsent => coef.n.bits = Tenth.bits
    /\ (~RolloffAbsent /\ options["rolloff_freq"] = Num(FloatMul(Half, sample_rate)))
         => coef.n.bits = Half.bits
    /\ (~RolloffAbsent /\ options["rolloff_freq"] = Num(FloatOfInt(0)))
         => coef.n.bits = FloatOfInt(0).bits

\* two floats at most one unit in the last place apart
WithinOneUlp(a, b) ==
  /\ a.e = b.e
  /\ a.m = b.m \/ a.m = Increment(b.m) \/ b.m = Increment(a.m)

\* C7 (amended): the coefficient is rolloff_freq / sample_rate as binary64
\* arithmetic computes it: 0.5 for rolloff_freq = 0.5 * sample_rate and 0
\* for rolloff_freq = 0, exactly; for an absent rolloff_freq the quotient
\* (0.1 * sample_rate) / sample_rate, whose real value is 1/10 and which is
\* within one unit in the last place of 0.1, and is 0.1 itself at the
\* common rates 22050 and 44100.
C7_CoefficientRounded ==
  (pc \in {"returned", "raised"} /\ Enabled("speech_emphasis")) =>
    /\ RolloffAbsent =>
         /\ coef.n.val = Rat(1, 10)
         /\ WithinOneUlp(coef.n.bits, Tenth.bits)
         /\ sample_rate \in CommonRates => coef.n.bits = Tenth.bits
    /\ (~RolloffAbsent /\ options["rolloff_freq"] = Num(FloatMul(Half, sample_rate)))
         => coef.n.bits = Half.bits
    /\ (~RolloffAbsent /\ options["rolloff_freq"] = Num(FloatOfInt(0)))
         => coef.n.bits = FloatOfInt(0).bits

\* C7 witness: the default roll-off at a sample rate where the quotient is
\* not the double 0.1
C7_Witness ==
  /\ pc = "returned"
  /\ Enabled("speech_emphasis")
  /\ RolloffAbsent
  /\ coef.n.bits # Tenth.bits

C9_CompleteOnlyAfterWrite ==
  /\ Count(out, CompleteMsg) <= 1
  /\ Len(writes) <= 1
  /\ Printed(CompleteMsg) =>
       /\ Len(writes) = 1
       /\ writes[1].path \in files
       /\ fault = "none"
  /\ writes # <<>> =>
       /\ read_result # Unset
       /\ read_result.t = "pair"
       /\ Printed(OutputPrompt)
       /\ output_filepath # Unset
       /\ writes[1].path = output_filepath.s
  /\ (writes # <<>> /\ files = {}) =>
       /\ pc = "crashed"
       /\ fault = "WriteError"
       /\ ~Printed(CompleteMsg)

\* C9 witness: a run ended by a failed write
C9_Witness == writes # <<>> /\ files = {} /\ fault = "WriteError"

\* C10 (as claimed): after read_audio has returned None, main ends by
\* returning, with no uncaught exception.
C10_FailedReadReturns ==
  (read_result = None /\ pc # "unpack") => (pc = "done" /\ fault = "none")

====
